---- MODULE Spec2Model ----
(***************************************************************************)
(* Model of the News entity of the MiMutual admin backend: the rows of the *)
(* `news` table, the model methods (save, soft_delete, restore,            *)
(* increment_views), the REST viewsets and the admin site handlers.        *)
(*                                                                         *)
(* A row is a record; the table is the sequence `news`, a row's primary    *)
(* key being its index.  Strings that the code computes on (titles and     *)
(* slugs) are sequences of one-character strings.                          *)
(***************************************************************************)
EXTENDS Integers, Sequences, FiniteSets, TLC

VARIABLES
    news,       \* the rows of table `news` (News.all_objects), by primary key
    now,        \* timezone.now()
    response,   \* the last request answered: which, its status code, the rows a read returned
    inflight,   \* per request worker: the request it is in the middle of
    acked,      \* per row: view-count requests answered "Visualizacion registrada"
    categories  \* the rows of table `categories` (Category.objects), by primary key

vars == <<news, now, response, inflight, acked, categories>>

----------------------------------------------------------------------------
(* Bounds of the model *)

MaxRows == 1        \* rows of the table under Spec, with requests of every kind
MaxNews == 2        \* rows of the table under SpecSlug and SpecConc
MaxCreated == 3     \* rows of the table under SpecCreate
MaxTime == 1        \* clock ticks
MaxViews == 2       \* view-count requests answered per row
MaxWorkers == 2     \* request workers running concurrently

----------------------------------------------------------------------------
(* Values *)

Null == 0               \* None in an integer audit field
NoTime == 0 - 1         \* None in a DateTimeField

Staff == {1, 2}         \* ids of users with is_staff
NormalUser == 3         \* an authenticated user without is_staff
Anonymous == 0          \* AnonymousUser

IsStaff(u) == u \in Staff
IsAuthenticated(u) == u # Anonymous

\* request.user, the user object itself (as opposed to request.user.id)
UserObject(u) == 0 - u
IsUserObject(v) == v < 0

STATUS_CHOICES == {"draft", "published", "archived"}

Workers == 1..MaxWorkers

----------------------------------------------------------------------------
(* django.utils.text.slugify, on the characters the titles below use *)

Lower(c) ==
    CASE c = "T" -> "t"
      [] c = "N" -> "n"
      [] OTHER -> c

IsWordChar(c) == c \in {"t", "e", "s", "n", "w", "1", "2", "_"}
IsSepChar(c) == c \in {" ", "-"}

RECURSIVE MapLower(_)
MapLower(s) ==
    IF s = <<>> THEN <<>> ELSE <<Lower(Head(s))>> \o MapLower(Tail(s))

KeepSlugChars(s) == SelectSeq(s, LAMBDA c : IsWordChar(c) \/ IsSepChar(c))

RECURSIVE DropSeps(_)
DropSeps(s) ==
    IF s # <<>> /\ IsSepChar(Head(s)) THEN DropSeps(Tail(s)) ELSE s

RECURSIVE Collapse(_)
Collapse(s) ==
    IF s = <<>> THEN <<>>
    ELSE IF IsSepChar(Head(s)) THEN <<"-">> \o Collapse(DropSeps(Tail(s)))
    ELSE <<Head(s)>> \o Collapse(Tail(s))

RECURSIVE StripLeft(_)
StripLeft(s) ==
    IF s # <<>> /\ Head(s) \in {"-", "_"} THEN StripLeft(Tail(s)) ELSE s

RECURSIVE StripRight(_)
StripRight(s) ==
    IF s # <<>> /\ s[Len(s)] \in {"-", "_"}
    THEN StripRight(SubSeq(s, 1, Len(s) - 1))
    ELSE s

slugify(title) == StripRight(StripLeft(Collapse(KeepSlugChars(MapLower(title)))))

\* str(counter) inside the f-string
Digit == <<"0", "1", "2", "3", "4", "5", "6", "7", "8", "9">>

RECURSIVE Str(_)
Str(n) ==
    IF n < 10 THEN <<Digit[n + 1]>> ELSE Str(n \div 10) \o <<Digit[(n % 10) + 1]>>

\* the titles the requests carry
TestNews == <<"T", "e", "s", "t", " ", "N", "e", "w", "s">>
TestNews1 == <<"T", "e", "s", "t", " ", "N", "e", "w", "s", " ", "1">>
Bangs == <<"!", "!">>

Titles == {TestNews, TestNews1, Bangs}

----------------------------------------------------------------------------
(* News: the model *)

\* News(title=..., status=..., published_at=..., created_by=..., published_by=...)
NewRow(title, st, pubat, creator, publisher) ==
    [title |-> title, slug |-> <<>>, status |-> st, view_count |-> 0,
     published_at |-> pubat, created_by |-> creator, updated_by |-> Null,
     published_by |-> publisher, updated_at |-> NoTime, deleted_at |-> NoTime]

NoRow == NewRow(<<>>, "draft", NoTime, Null, Null)

\* mutant: the check made through News.objects, which leaves soft-deleted rows out
SlugExistsAmongActive(slug, rows) ==
    \E i \in DOMAIN rows : rows[i].deleted_at = NoTime /\ rows[i].slug = slug

\* News.all_objects.filter(slug=slug).exists()
SlugExists(slug, rows) == \E i \in DOMAIN rows : rows[i].slug = slug

\* the while loop of save()
RECURSIVE SlugLoop(_, _, _, _)
SlugLoop(base_slug, slug, counter, rows) ==
    IF SlugExists(slug, rows)
    THEN SlugLoop(base_slug, base_slug \o <<"-">> \o Str(counter), counter + 1, rows)
    ELSE slug

\* mutant: the counter starting at 0
GenSlugFromZero(title, rows) == SlugLoop(slugify(title), slugify(title), 0, rows)

GenSlug(title, rows) == SlugLoop(slugify(title), slugify(title), 1, rows)

\* mutant: the slug generated from the title on every save
SaveReslugs(inst, rows, t) ==
    [inst EXCEPT !.slug = GenSlug(inst.title, rows), !.updated_at = t]

\* News.save() up to the call of super().save(): the in-memory instance
Save(inst, rows, t) ==
    [inst EXCEPT !.slug = IF inst.slug = <<>> THEN GenSlug(inst.title, rows) ELSE @,
                 !.updated_at = t]

\* super().save(): an IntegerField takes None or an int, anything else raises
Storable(inst) ==
    /\ ~IsUserObject(inst.created_by)
    /\ ~IsUserObject(inst.updated_by)
    /\ ~IsUserObject(inst.published_by)

\* mutant: the comparison with the clock left out
is_published_whenever(row, t) ==
    /\ row.status = "published"
    /\ row.published_at # NoTime

\* News.is_published
is_published(row, t) ==
    /\ row.status = "published"
    /\ row.published_at # NoTime
    /\ row.published_at <= t

\* News.soft_delete(user_id) up to super().save()
soft_delete(row, user_id, rows, t) ==
    Save([row EXCEPT !.deleted_at = t,
                     !.updated_by = IF user_id # Null THEN user_id ELSE @],
         rows, t)

\* News.restore() up to super().save()
restore(row, rows, t) == Save([row EXCEPT !.deleted_at = NoTime], rows, t)

\* mutant: a default manager that filters nothing
ObjectsUnfiltered(rows) == DOMAIN rows

\* SoftDeleteManager.get_queryset: News.objects
Objects(rows) == {i \in DOMAIN rows : rows[i].deleted_at = NoTime}

\* News.all_objects
AllObjects(rows) == DOMAIN rows

Respond(request, code, ids) ==
    response' = [request |-> request, code |-> code, ids |-> ids]

Insert(row) ==
    /\ news' = Append(news, row)
    /\ acked' = Append(acked, 0)

Idle == [op |-> "idle", id |-> 0, inst |-> NoRow]

NoneInFlight == \A w \in Workers : inflight[w].op = "idle"

\* the workers in the middle of an admin add
Adding == {w \in Workers : inflight[w].op = "admin.add"}

\* the workers in the middle of a view-count request on row id
Viewing(id) ==
    {w \in Workers : inflight[w].op \in {"increment_views", "view"} /\ inflight[w].id = id}

\* keeps the view counters within the model's bound
ViewsBudget(id) ==
    id \in DOMAIN news => acked[id] + Cardinality(Viewing(id)) < MaxViews

----------------------------------------------------------------------------
Init ==
    /\ news = <<>>
    /\ now = 0
    /\ response = [request |-> "none", code |-> 0, ids |-> {}]
    /\ inflight = [w \in Workers |-> Idle]
    /\ acked = <<>>
    /\ categories = <<>>

Tick ==
    /\ now < MaxTime
    /\ now' = now + 1
    /\ UNCHANGED <<news, response, inflight, acked, categories>>

\* News.objects.create(title=..., status=..., published_at=..., created_by=...)
ObjectsCreate(title, st, pubat, creator) ==
    /\ NoneInFlight
    /\ LET inst == Save(NewRow(title, st, pubat, creator, Null), news, now)
       IN  IF Storable(inst)
           THEN Insert(inst) /\ Respond("objects.create", 201, {})
           ELSE Respond("objects.create", 500, {}) /\ UNCHANGED <<news, acked>>
    /\ UNCHANGED <<now, inflight, categories>>


----------------------------------------------------------------------------
(* The REST API: permissions and querysets *)

DeletedParams == {"none", "true", "false"}      \* the ?deleted= query parameter

\* mutant: writes open to every authenticated caller
IsAuthenticatedOnly(method, caller) == IsAuthenticated(caller)

\* IsAdminOrReadOnly.has_permission
IsAdminOrReadOnly(method, caller) ==
    IF method \in {"GET", "HEAD", "OPTIONS"}
    THEN IsAuthenticated(caller)
    ELSE IsStaff(caller)

\* rest_framework.permissions.IsAdminUser
IsAdminUser(caller) == IsStaff(caller)

\* the status of a refused request: 403, or 401 when nobody is logged in and
\* the authentication scheme in use sends a challenge
DeniedCodes(caller) == IF IsAuthenticated(caller) THEN {403} ELSE {401, 403}

Denied(request, caller) ==
    /\ \E code \in DeniedCodes(caller) : Respond(request, code, {})
    /\ UNCHANGED <<news, now, inflight, acked, categories>>

NotFound(request) ==
    /\ Respond(request, 404, {})
    /\ UNCHANGED <<news, now, inflight, acked, categories>>

BadRequest(request) ==
    /\ Respond(request, 400, {})
    /\ UNCHANGED <<news, now, inflight, acked, categories>>

ServerError(request) ==
    /\ Respond(request, 500, {})
    /\ UNCHANGED <<news, now, inflight, acked, categories>>

\* NewsViewSet.get_queryset
NewsGetQueryset(caller, deleted, rows) ==
    LET base == Objects(rows)
        queryset == IF ~IsStaff(caller)
                    THEN {i \in base : rows[i].deleted_at = NoTime}
                    ELSE base
    IN  CASE deleted = "true" ->
               {i \in AllObjects(rows) : rows[i].deleted_at # NoTime}
          [] deleted = "false" ->
               {i \in AllObjects(rows) : rows[i].deleted_at = NoTime}
          [] OTHER -> queryset

\* mutant: the public queryset without the test of published_at
PublicGetQuerysetUndated(rows, t) ==
    {i \in Objects(rows) : rows[i].status = "published" /\ rows[i].deleted_at = NoTime}

\* PublicNewsViewSet.get_queryset
PublicGetQueryset(rows, t) ==
    {i \in Objects(rows) :
        /\ rows[i].status = "published"
        /\ rows[i].published_at # NoTime
        /\ rows[i].published_at <= t
        /\ rows[i].deleted_at = NoTime}

\* super().save() of an instance that has a primary key: UPDATE, or TypeError
SaveRow(request, id, inst, code) ==
    IF Storable(inst)
    THEN /\ news' = [news EXCEPT ![id] = inst]
         /\ Respond(request, code, {})
         /\ UNCHANGED <<now, inflight, acked, categories>>
    ELSE ServerError(request)

----------------------------------------------------------------------------
(* NewsViewSet *)

\* GET /news/
ApiList(caller, deleted) ==
    /\ NoneInFlight
    /\ IF ~IsAdminOrReadOnly("GET", caller)
       THEN Denied("list", caller)
       ELSE /\ Respond("list", 200, NewsGetQueryset(caller, deleted, news))
            /\ UNCHANGED <<news, now, inflight, acked, categories>>

\* GET /news/{id}/
ApiRetrieve(caller, id, deleted) ==
    /\ NoneInFlight
    /\ IF ~IsAdminOrReadOnly("GET", caller)
       THEN Denied("retrieve", caller)
       ELSE IF id \notin NewsGetQueryset(caller, deleted, news)
       THEN NotFound("retrieve")
       ELSE /\ Respond("retrieve", 200, {id})
            /\ UNCHANGED <<news, now, inflight, acked, categories>>

\* NewsCreateSerializer.create, up to News.objects.create
SerializerCreate(title, st, pubat, caller, t) ==
    LET publishing == st = "published" /\ pubat = NoTime
    IN  NewRow(title, st,
               IF publishing THEN t ELSE pubat,
               UserObject(caller),
               IF publishing THEN UserObject(caller) ELSE Null)

\* POST /news/
ApiCreate(caller, title, st, pubat) ==
    /\ NoneInFlight
    /\ IF ~IsAdminOrReadOnly("POST", caller)
       THEN Denied("create", caller)
       ELSE LET inst == Save(SerializerCreate(title, st, pubat, caller, now), news, now)
            IN  IF Storable(inst)
                THEN /\ Insert(inst)
                     /\ Respond("create", 201, {})
                     /\ UNCHANGED <<now, inflight, categories>>
                ELSE ServerError("create")

\* the payloads of PUT/PATCH: the fields present and their values
Payload(fields, title, st, pubat) ==
    [fields |-> fields, title |-> title, status |-> st, published_at |-> pubat]

Payloads ==
    {Payload({"status"}, <<>>, "published", NoTime),
     Payload({"status", "published_at"}, <<>>, "published", NoTime),
     Payload({"title", "status"}, TestNews1, "draft", NoTime)}

\* mutant: the audit columns take the caller's id, not the user object
SerializerUpdateWithId(instance, payload, caller, t) ==
    LET audited == [instance EXCEPT !.updated_by = caller]
        publishing == /\ "status" \in payload.fields
                      /\ payload.status = "published"
                      /\ instance.status # "published"
        stamped == IF publishing
                   THEN [audited EXCEPT
                            !.published_at = IF @ = NoTime THEN t ELSE @,
                            !.published_by = caller]
                   ELSE audited
    IN  [stamped EXCEPT
            !.title = IF "title" \in payload.fields THEN payload.title ELSE @,
            !.status = IF "status" \in payload.fields THEN payload.status ELSE @,
            !.published_at = IF "published_at" \in payload.fields
                             THEN payload.published_at ELSE @]

\* NewsUpdateSerializer.update, up to instance.save()
SerializerUpdate(instance, payload, caller, t) ==
    LET audited == [instance EXCEPT !.updated_by = UserObject(caller)]
        publishing == /\ "status" \in payload.fields
                      /\ payload.status = "published"
                      /\ instance.status # "published"
        stamped == IF publishing
                   THEN [audited EXCEPT
                            !.published_at = IF @ = NoTime THEN t ELSE @,
                            !.published_by = UserObject(caller)]
                   ELSE audited
    IN  [stamped EXCEPT
            !.title = IF "title" \in payload.fields THEN payload.title ELSE @,
            !.status = IF "status" \in payload.fields THEN payload.status ELSE @,
            !.published_at = IF "published_at" \in payload.fields
                             THEN payload.published_at ELSE @]

\* PUT/PATCH /news/{id}/
ApiUpdate(caller, id, deleted, payload) ==
    /\ NoneInFlight
    /\ IF ~IsAdminOrReadOnly("PATCH", caller)
       THEN Denied("update", caller)
       ELSE IF id \notin NewsGetQueryset(caller, deleted, news)
       THEN NotFound("update")
       ELSE SaveRow("update", id, Save(SerializerUpdate(news[id], payload, caller, now), news, now), 200)

\* the keyword perform_destroy passes, and the ones soft_delete declares
PerformDestroyKeyword == "user"
SoftDeleteKeywords == {"user_id"}

\* NewsViewSet.perform_destroy: DELETE /news/{id}/
ApiDestroy(caller, id, deleted) ==
    /\ NoneInFlight
    /\ IF ~IsAdminOrReadOnly("DELETE", caller)
       THEN Denied("destroy", caller)
       ELSE IF id \notin NewsGetQueryset(caller, deleted, news)
       THEN NotFound("destroy")
       ELSE IF PerformDestroyKeyword \notin SoftDeleteKeywords
       THEN ServerError("destroy")
       ELSE SaveRow("destroy", id, soft_delete(news[id], UserObject(caller), news, now), 204)

\* mutant: restore without its test of deleted_at
ApiRestoreUnguarded(caller, id, deleted) ==
    /\ NoneInFlight
    /\ IF ~IsAdminUser(caller)
       THEN Denied("restore", caller)
       ELSE IF id \notin NewsGetQueryset(caller, deleted, news)
       THEN NotFound("restore")
       ELSE SaveRow("restore", id, restore(news[id], news, now), 200)

\* NewsViewSet.restore: POST /news/{id}/restore/
ApiRestore(caller, id, deleted) ==
    /\ NoneInFlight
    /\ IF ~IsAdminUser(caller)
       THEN Denied("restore", caller)
       ELSE IF id \notin NewsGetQueryset(caller, deleted, news)
       THEN NotFound("restore")
       ELSE IF news[id].deleted_at = NoTime
       THEN BadRequest("restore")
       ELSE SaveRow("restore", id, restore(news[id], news, now), 200)

\* NewsViewSet.publish, the assignments before news.save()
PublishEdit(row, caller, t) ==
    [row EXCEPT !.status = "published",
                !.published_at = IF @ = NoTime THEN t ELSE @,
                !.published_by = IF @ = Null THEN UserObject(caller) ELSE @]

\* mutant: publish without its test of deleted_at
ApiPublishUnguarded(caller, id, deleted) ==
    /\ NoneInFlight
    /\ IF ~IsAdminUser(caller)
       THEN Denied("publish", caller)
       ELSE IF id \notin NewsGetQueryset(caller, deleted, news)
       THEN NotFound("publish")
       ELSE IF news[id].status = "published"
       THEN /\ Respond("publish", 200, {})
            /\ UNCHANGED <<news, now, inflight, acked, categories>>
       ELSE SaveRow("publish", id, Save(PublishEdit(news[id], caller, now), news, now), 200)

\* mutant: publish without its test of the status, stamping the caller's id
\* and the time on every call
ApiPublishRestamps(caller, id, deleted) ==
    /\ NoneInFlight
    /\ IF ~IsAdminUser(caller)
       THEN Denied("publish", caller)
       ELSE IF id \notin NewsGetQueryset(caller, deleted, news)
       THEN NotFound("publish")
       ELSE IF news[id].deleted_at # NoTime
       THEN BadRequest("publish")
       ELSE SaveRow("publish", id,
                    Save([news[id] EXCEPT !.status = "published",
                                          !.published_at = now,
                                          !.published_by = caller], news, now), 200)

\* NewsViewSet.publish: POST /news/{id}/publish/
ApiPublish(caller, id, deleted) ==
    /\ NoneInFlight
    /\ IF ~IsAdminUser(caller)
       THEN Denied("publish", caller)
       ELSE IF id \notin NewsGetQueryset(caller, deleted, news)
       THEN NotFound("publish")
       ELSE IF news[id].deleted_at # NoTime
       THEN BadRequest("publish")
       ELSE IF news[id].status = "published"
       THEN /\ Respond("publish", 200, {})
            /\ UNCHANGED <<news, now, inflight, acked, categories>>
       ELSE SaveRow("publish", id, Save(PublishEdit(news[id], caller, now), news, now), 200)

\* News.increment_views: the value written by save(update_fields=['view_count'])
IncrementedViews(inst) == inst.view_count + 1

\* mutant: save() without update_fields, every column of the instance written
WriteViewsAllFields(request, id, inst) ==
    /\ news' = [news EXCEPT
                   ![id] = Save([inst EXCEPT !.view_count = IncrementedViews(inst)], news, now)]
    /\ acked' = [acked EXCEPT ![id] = @ + 1]
    /\ Respond(request, 200, {})

\* the UPDATE of the view_count column alone
WriteViews(request, id, inst) ==
    /\ news' = [news EXCEPT ![id].view_count = IncrementedViews(inst)]
    /\ acked' = [acked EXCEPT ![id] = @ + 1]
    /\ Respond(request, 200, {})

\* NewsViewSet.increment_views: does the request get past the 404s
IncrementViewsFinds(caller, id, deleted, rows, t) ==
    /\ id \in NewsGetQueryset(caller, deleted, rows)
    /\ ~(rows[id].deleted_at # NoTime \/ ~is_published(rows[id], t))

\* PublicNewsViewSet.view: get_object over the public queryset
PublicViewFinds(id, rows, t) == id \in PublicGetQueryset(rows, t)

\* POST /news/{id}/increment_views/
ApiIncrementViews(caller, id, deleted) ==
    /\ NoneInFlight
    /\ IF ~IncrementViewsFinds(caller, id, deleted, news, now)
       THEN NotFound("increment_views")
       ELSE /\ WriteViews("increment_views", id, news[id])
            /\ UNCHANGED <<now, inflight, categories>>

\* POST /public/news/{id}/view/
PublicView(id) ==
    /\ NoneInFlight
    /\ IF ~PublicViewFinds(id, news, now)
       THEN NotFound("view")
       ELSE /\ WriteViews("view", id, news[id])
            /\ UNCHANGED <<now, inflight, categories>>

\* the records a request may get out of a queryset: all of them, or, when it
\* carries a category or search filter or is cut to a page, some of them
Narrow(queryset, narrowed) == IF narrowed THEN SUBSET queryset ELSE {queryset}

\* NewsViewSet.public, the queryset it builds itself
PublicActionQueryset(rows, t) ==
    {i \in Objects(rows) :
        /\ rows[i].status = "published"
        /\ rows[i].published_at # NoTime
        /\ rows[i].published_at <= t
        /\ rows[i].deleted_at = NoTime}

\* GET /news/public/
ApiPublic(narrowed) ==
    /\ NoneInFlight
    /\ \E ids \in Narrow(PublicActionQueryset(news, now), narrowed) :
          Respond("public", 200, ids)
    /\ UNCHANGED <<news, now, inflight, acked, categories>>

\* GET /public/news/
PublicList(narrowed) ==
    /\ NoneInFlight
    /\ \E ids \in Narrow(PublicGetQueryset(news, now), narrowed) :
          Respond("public.list", 200, ids)
    /\ UNCHANGED <<news, now, inflight, acked, categories>>

\* GET /public/news/{id}/
PublicRetrieve(id, narrowed) ==
    /\ NoneInFlight
    /\ \E ids \in Narrow(PublicGetQueryset(news, now), narrowed) :
          IF id \notin ids
          THEN NotFound("public.retrieve")
          ELSE /\ Respond("public.retrieve", 200, {id})
               /\ UNCHANGED <<news, now, inflight, acked, categories>>


----------------------------------------------------------------------------
(* NewsAdmin: the admin site, open to staff users, over News.all_objects *)

\* mutant: the publisher stamped on every save of a published record
SaveModelEditRestamps(obj, user_id, change, t) ==
    LET audited == IF ~change
                   THEN [obj EXCEPT !.created_by = user_id]
                   ELSE [obj EXCEPT !.updated_by = user_id]
    IN  IF audited.status = "published"
        THEN [audited EXCEPT !.published_by = user_id,
                             !.published_at = IF @ = NoTime THEN t ELSE @]
        ELSE audited

\* NewsAdmin.save_model, the assignments before obj.save()
SaveModelEdit(obj, user_id, change, t) ==
    LET audited == IF ~change
                   THEN [obj EXCEPT !.created_by = user_id]
                   ELSE [obj EXCEPT !.updated_by = user_id]
    IN  IF audited.status = "published" /\ audited.published_by = Null
        THEN [audited EXCEPT !.published_by = user_id,
                             !.published_at = IF @ = NoTime THEN t ELSE @]
        ELSE audited

\* the add form (title, status) and save_model(change=False)
AdminAdd(u, title, st) ==
    /\ NoneInFlight
    /\ LET obj == SaveModelEdit(NewRow(title, st, NoTime, Null, Null), u, FALSE, now)
       IN  Insert(Save(obj, news, now))
    /\ Respond("admin.add", 302, {})
    /\ UNCHANGED <<now, inflight, categories>>

\* the change form (title, status; slug is read-only) and save_model(change=True)
AdminChange(u, id, title, st) ==
    /\ NoneInFlight
    /\ id \in AllObjects(news)
    /\ LET form == [news[id] EXCEPT !.title = title, !.status = st]
       IN  news' = [news EXCEPT ![id] = Save(SaveModelEdit(form, u, TRUE, now), news, now)]
    /\ Respond("admin.change", 302, {})
    /\ UNCHANGED <<now, inflight, acked, categories>>

\* which selected rows a bulk action works on
BulkSelects(kind, row) ==
    CASE kind = "archive_news" -> row.deleted_at = NoTime
      [] kind = "soft_delete_news" -> row.deleted_at = NoTime
      [] kind = "restore_news" -> row.deleted_at # NoTime

\* what a bulk action does to one row, News.save() included
BulkEdit(kind, user_id, row, rows, t) ==
    CASE kind = "archive_news" ->
           Save([row EXCEPT !.status = "archived", !.updated_by = user_id], rows, t)
      [] kind = "soft_delete_news" -> soft_delete(row, user_id, rows, t)
      [] kind = "restore_news" -> restore(row, rows, t)

\* the for loop of a bulk action over the selected rows
RECURSIVE BulkApply(_, _, _, _, _, _)
BulkApply(kind, user_id, selected, rows, t, i) ==
    IF i > Len(rows) THEN rows
    ELSE IF i \in selected /\ BulkSelects(kind, rows[i])
    THEN BulkApply(kind, user_id, selected,
                   [rows EXCEPT ![i] = BulkEdit(kind, user_id, rows[i], rows, t)],
                   t, i + 1)
    ELSE BulkApply(kind, user_id, selected, rows, t, i + 1)

BulkAction(kind, u, selected) ==
    /\ selected # {}
    /\ selected \subseteq AllObjects(news)
    /\ news' = BulkApply(kind, u, selected, news, now, 1)
    /\ Respond(kind, 302, {})
    /\ UNCHANGED <<now, inflight, acked, categories>>

\* a bulk action with no other request in flight
AdminAction(kind, u, selected) == NoneInFlight /\ BulkAction(kind, u, selected)

\* NewsAdmin.archive_news
archive_news(u, selected) == AdminAction("archive_news", u, selected)

\* NewsAdmin.soft_delete_news
soft_delete_news(u, selected) == AdminAction("soft_delete_news", u, selected)

\* NewsAdmin.restore_news
restore_news(u, selected) == AdminAction("restore_news", u, selected)

\* what queryset.delete() leaves of a table: the rows not selected, in order
\* (rows are numbered by position, so the rows after a removed one move up)
RECURSIVE Without(_, _, _)
Without(rows, selected, i) ==
    IF i > Len(rows) THEN <<>>
    ELSE (IF i \in selected THEN <<>> ELSE <<rows[i]>>) \o Without(rows, selected, i + 1)

\* the delete_selected action every ModelAdmin has unless it is disabled:
\* NewsAdmin does not disable it, and News does not override delete()
delete_selected(u, selected) ==
    /\ NoneInFlight
    /\ selected # {}
    /\ selected \subseteq AllObjects(news)
    /\ news' = Without(news, selected, 1)
    /\ acked' = Without(acked, selected, 1)
    /\ Respond("delete_selected", 302, {})
    /\ UNCHANGED <<now, inflight, categories>>

----------------------------------------------------------------------------
(* Category: the model and CategoryViewSet *)

MaxCategories == 3      \* rows of the table of categories

Salud == <<"S", "a", "l", "u", "d">>
General == <<"G", "e", "n", "e", "r", "a", "l">>

CategoryNames == {Salud, General}

\* Category(name=..., is_active=...): slug is a SlugField with blank=True and
\* no default, and Category has no save() of its own
NewCategory(name, is_active) ==
    [name |-> name, slug |-> <<>>, is_active |-> is_active]

\* name and slug are declared unique=True
Conflicts(row, rows) ==
    \E i \in DOMAIN rows : rows[i].name = row.name \/ rows[i].slug = row.slug

\* the INSERT of a category: stored, or, when a stored row holds its name or
\* its slug, refused by the database if the table has the unique constraints
\* the model declares (Django does not manage the table)
InsertCategory(request, row) ==
    \/ /\ categories' = Append(categories, row)
       /\ Respond(request, 201, {})
    \/ /\ Conflicts(row, categories)
       /\ Respond(request, 500, {})
       /\ UNCHANGED categories

\* Category.objects.create(name=...)
CategoryObjectsCreate(name) ==
    /\ NoneInFlight
    /\ InsertCategory("category.objects.create", NewCategory(name, TRUE))
    /\ UNCHANGED <<news, now, inflight, acked>>

\* CategoryViewSet.create: POST /categories/ (slug is read-only in CategorySerializer,
\* and the serializer validates that the name is not taken)
ApiCategoryCreate(caller, name, is_active) ==
    /\ NoneInFlight
    /\ IF ~IsAdminOrReadOnly("POST", caller)
       THEN Denied("category.create", caller)
       ELSE IF \E i \in DOMAIN categories : categories[i].name = name
       THEN BadRequest("category.create")
       ELSE /\ InsertCategory("category.create", NewCategory(name, is_active))
            /\ UNCHANGED <<news, now, inflight, acked>>

\* CategoryViewSet.get_queryset
CategoryGetQueryset(caller, rows) ==
    IF ~IsStaff(caller) THEN {i \in DOMAIN rows : rows[i].is_active} ELSE DOMAIN rows

\* CategoryViewSet.partial_update: PATCH /categories/{id}/ with is_active
ApiCategoryUpdate(caller, id, is_active) ==
    /\ NoneInFlight
    /\ IF ~IsAdminOrReadOnly("PATCH", caller)
       THEN Denied("category.update", caller)
       ELSE IF id \notin CategoryGetQueryset(caller, categories)
       THEN NotFound("category.update")
       ELSE /\ categories' = [categories EXCEPT ![id].is_active = is_active]
            /\ Respond("category.update", 200, {})
            /\ UNCHANGED <<news, now, inflight, acked>>


----------------------------------------------------------------------------
(* Requests handled one after the other *)

Callers == Staff \cup {NormalUser, Anonymous}

\* one caller of each kind
OneOfEach == {1, NormalUser, Anonymous}

\* the primary keys requests name: those of the stored rows, and one of no row
Ids == 1..(Len(news) + 1)

Next ==
    \/ Tick
    \/ \E st \in STATUS_CHOICES, p \in {NoTime, now, MaxTime + 1},
          c \in {Null, UserObject(1)} :
          Len(news) < MaxRows /\ ObjectsCreate(TestNews, st, p, c)
    \/ \E u \in Staff, st \in STATUS_CHOICES :
          Len(news) < MaxRows /\ AdminAdd(u, TestNews, st)
    \/ \E u \in Staff, id \in DOMAIN news, st \in STATUS_CHOICES :
          AdminChange(u, id, TestNews, st)
    \/ \E u \in Staff, sel \in SUBSET DOMAIN news : archive_news(u, sel)
    \/ \E u \in Staff, sel \in SUBSET DOMAIN news : soft_delete_news(u, sel)
    \/ \E u \in Staff, sel \in SUBSET DOMAIN news : restore_news(u, sel)
    \/ \E c \in OneOfEach, d \in DeletedParams : ApiList(c, d)
    \/ \E c \in OneOfEach, id \in Ids, d \in DeletedParams : ApiRetrieve(c, id, d)
    \/ \E c \in OneOfEach, st \in STATUS_CHOICES, p \in {NoTime, MaxTime + 1} :
          Len(news) < MaxRows /\ ApiCreate(c, TestNews, st, p)
    \/ \E c \in OneOfEach, id \in DOMAIN news, d \in DeletedParams, p \in Payloads :
          ApiUpdate(c, id, d, p)
    \/ \E c \in OneOfEach, id \in DOMAIN news, d \in DeletedParams : ApiDestroy(c, id, d)
    \/ \E c \in OneOfEach, id \in DOMAIN news, d \in DeletedParams : ApiRestore(c, id, d)
    \/ \E c \in Callers, id \in DOMAIN news, d \in DeletedParams : ApiPublish(c, id, d)
    \/ \E c \in OneOfEach, id \in DOMAIN news, d \in DeletedParams :
          ViewsBudget(id) /\ ApiIncrementViews(c, id, d)
    \/ \E id \in Ids : ViewsBudget(id) /\ PublicView(id)
    \/ \E n \in BOOLEAN : ApiPublic(n)
    \/ \E n \in BOOLEAN : PublicList(n)
    \/ \E id \in Ids, n \in BOOLEAN : PublicRetrieve(id, n)

Spec == Init /\ [][Next]_vars

----------------------------------------------------------------------------
(* Requests handled one after the other, over several titles *)

\* the categories alone
NextCategory ==
    \/ \E name \in CategoryNames :
          Len(categories) < MaxCategories /\ CategoryObjectsCreate(name)
    \/ \E c \in OneOfEach, name \in CategoryNames, a \in BOOLEAN :
          Len(categories) < MaxCategories /\ ApiCategoryCreate(c, name, a)
    \/ \E c \in OneOfEach, id \in 1..(Len(categories) + 1), a \in BOOLEAN :
          ApiCategoryUpdate(c, id, a)

SpecCategory == Init /\ [][NextCategory]_vars

NextSlug ==
    \/ \E t \in Titles, st \in {"draft", "published"} :
          Len(news) < MaxNews /\ AdminAdd(1, t, st)
    \/ \E id \in Ids, t \in Titles, st \in {"draft", "published"} :
          AdminChange(1, id, t, st)
    \/ \E id \in Ids : soft_delete_news(1, {id})
    \/ \E id \in Ids : restore_news(1, {id})
    \/ \E id \in Ids : ApiPublish(1, id, "none")
    \/ \E id \in Ids : ViewsBudget(id) /\ PublicView(id)

SpecSlug == Init /\ [][NextSlug]_vars

(* Records created one after the other, soft-deleted and restored *)

NextCreate ==
    \/ \E t \in Titles : Len(news) < MaxCreated /\ ObjectsCreate(t, "draft", NoTime, Null)
    \/ \E id \in Ids, t \in Titles : AdminChange(1, id, t, "draft")
    \/ \E id \in Ids : soft_delete_news(1, {id})
    \/ \E id \in Ids : restore_news(1, {id})

SpecCreate == Init /\ [][NextCreate]_vars

(* The ways of deleting a record: the API's DELETE and the admin's actions *)

NextDelete ==
    \/ Tick
    \/ \E u \in Staff, st \in {"draft", "published"} :
          Len(news) < MaxNews /\ AdminAdd(u, TestNews, st)
    \/ \E u \in Staff, sel \in SUBSET DOMAIN news : soft_delete_news(u, sel)
    \/ \E u \in Staff, sel \in SUBSET DOMAIN news : restore_news(u, sel)
    \/ \E c \in OneOfEach, id \in DOMAIN news, d \in DeletedParams : ApiDestroy(c, id, d)
    \/ \E u \in Staff, sel \in SUBSET DOMAIN news : delete_selected(u, sel)

SpecDelete == Init /\ [][NextDelete]_vars

----------------------------------------------------------------------------
(* Requests handled concurrently: a handler reads the table in one step and  *)
(* writes to it in a later one, other workers' steps falling in between      *)

\* mutant: the slug check also sees the slugs other workers are about to write
BeginAddReserving(w, u, title, st) ==
    /\ inflight[w].op = "idle"
    /\ LET obj == SaveModelEdit(NewRow(title, st, NoTime, Null, Null), u, FALSE, now)
           pending == [k \in 1..MaxWorkers |-> inflight[k].inst]
           reserved == SelectSeq(pending, LAMBDA r : r.title # <<>>)
       IN  inflight' = [inflight EXCEPT
                           ![w] = [op |-> "admin.add", id |-> 0,
                                   inst |-> Save(obj, news \o reserved, now)]]
    /\ UNCHANGED <<news, now, response, acked, categories>>

\* admin add, up to super().save(): save_model and the slug loop of News.save()
BeginAdd(w, u, title, st) ==
    /\ inflight[w].op = "idle"
    /\ LET obj == SaveModelEdit(NewRow(title, st, NoTime, Null, Null), u, FALSE, now)
       IN  inflight' = [inflight EXCEPT
                           ![w] = [op |-> "admin.add", id |-> 0, inst |-> Save(obj, news, now)]]
    /\ UNCHANGED <<news, now, response, acked, categories>>

\* admin add, super().save(): the INSERT.  The model declares slug unique on a
\* table Django does not manage: a row whose slug is already stored is either
\* refused by the database (IntegrityError) or stored, as the schema has it
FinishAdd(w) ==
    /\ inflight[w].op = "admin.add"
    /\ \/ Insert(inflight[w].inst) /\ Respond("admin.add", 302, {})
       \/ /\ SlugExists(inflight[w].inst.slug, news)
          /\ Respond("admin.add", 500, {})
          /\ UNCHANGED <<news, acked>>
    /\ inflight' = [inflight EXCEPT ![w] = Idle]
    /\ UNCHANGED <<now, categories>>

\* a view-count request up to news.increment_views(): get_object and the checks
BeginViews(w, request, found, id) ==
    /\ inflight[w].op = "idle"
    /\ IF ~found
       THEN NotFound(request)
       ELSE /\ inflight' = [inflight EXCEPT
                               ![w] = [op |-> request, id |-> id, inst |-> news[id]]]
            /\ UNCHANGED <<news, now, response, acked, categories>>

\* POST /news/{id}/increment_views/, up to news.increment_views()
BeginIncrementViews(w, caller, id, deleted) ==
    BeginViews(w, "increment_views", IncrementViewsFinds(caller, id, deleted, news, now), id)

\* POST /public/news/{id}/view/, up to news.increment_views()
BeginPublicView(w, id) == BeginViews(w, "view", PublicViewFinds(id, news, now), id)

\* news.increment_views() and the response
FinishViews(w) ==
    /\ inflight[w].op \in {"increment_views", "view"}
    /\ WriteViews(inflight[w].op, inflight[w].id, inflight[w].inst)
    /\ inflight' = [inflight EXCEPT ![w] = Idle]
    /\ UNCHANGED <<now, categories>>

NextConc ==
    \/ \E w \in Workers, t \in {TestNews, Bangs}, st \in {"draft", "published"} :
          /\ Len(news) + Cardinality(Adding) < MaxNews
          /\ BeginAdd(w, 1, t, st)
    \/ \E w \in Workers : FinishAdd(w)
    \/ \E w \in Workers, id \in Ids :
          ViewsBudget(id) /\ BeginIncrementViews(w, Anonymous, id, "none")
    \/ \E w \in Workers, id \in Ids : ViewsBudget(id) /\ BeginPublicView(w, id)
    \/ \E w \in Workers : FinishViews(w)

SpecConc == Init /\ [][NextConc]_vars

\* the requests that load a row, change it in memory and save() every column
FullRowWriters == {"publish", "update", "archive_news"}

\* POST /news/{id}/publish/, up to news.save()
BeginPublish(w, caller, id, deleted) ==
    /\ inflight[w].op = "idle"
    /\ IF ~IsAdminUser(caller)
       THEN Denied("publish", caller)
       ELSE IF id \notin NewsGetQueryset(caller, deleted, news)
       THEN NotFound("publish")
       ELSE IF news[id].deleted_at # NoTime
       THEN BadRequest("publish")
       ELSE IF news[id].status = "published"
       THEN /\ Respond("publish", 200, {})
            /\ UNCHANGED <<news, now, inflight, acked, categories>>
       ELSE /\ inflight' = [inflight EXCEPT
                               ![w] = [op |-> "publish", id |-> id,
                                       inst |-> PublishEdit(news[id], caller, now)]]
            /\ UNCHANGED <<news, now, response, acked, categories>>

\* PUT/PATCH /news/{id}/, up to instance.save()
BeginUpdate(w, caller, id, deleted, payload) ==
    /\ inflight[w].op = "idle"
    /\ IF ~IsAdminOrReadOnly("PATCH", caller)
       THEN Denied("update", caller)
       ELSE IF id \notin NewsGetQueryset(caller, deleted, news)
       THEN NotFound("update")
       ELSE /\ inflight' = [inflight EXCEPT
                               ![w] = [op |-> "update", id |-> id,
                                       inst |-> SerializerUpdate(news[id], payload, caller, now)]]
            /\ UNCHANGED <<news, now, response, acked, categories>>

\* NewsAdmin.archive_news on one selected row, up to news.save(): the row
\* comes from queryset.filter(deleted_at__isnull=True)
BeginArchive(w, u, id) ==
    /\ inflight[w].op = "idle"
    /\ id \in AllObjects(news)
    /\ IF ~BulkSelects("archive_news", news[id])
       THEN /\ Respond("archive_news", 302, {})
            /\ UNCHANGED <<news, now, inflight, acked, categories>>
       ELSE /\ inflight' = [inflight EXCEPT
                               ![w] = [op |-> "archive_news", id |-> id,
                                       inst |-> [news[id] EXCEPT !.status = "archived",
                                                                 !.updated_by = u]]]
            /\ UNCHANGED <<news, now, response, acked, categories>>

\* news.save() of the instance loaded earlier, and the response: save() is
\* called without update_fields, so every column of the row is written
FinishSave(w) ==
    /\ inflight[w].op \in FullRowWriters
    /\ LET op == inflight[w].op
           inst == Save(inflight[w].inst, news, now)
       IN  IF Storable(inst)
           THEN /\ news' = [news EXCEPT ![inflight[w].id] = inst]
                /\ Respond(op, IF op = "archive_news" THEN 302 ELSE 200, {})
           ELSE /\ Respond(op, 500, {})
                /\ UNCHANGED news
    /\ inflight' = [inflight EXCEPT ![w] = Idle]
    /\ UNCHANGED <<now, acked, categories>>

NextStale ==
    \/ \E u \in Staff, st \in {"draft", "published"} :
          Len(news) < MaxRows /\ AdminAdd(u, TestNews, st)
    \/ \E w \in Workers, c \in OneOfEach, id \in Ids, d \in DeletedParams :
          BeginPublish(w, c, id, d)
    \/ \E w \in Workers, c \in OneOfEach, id \in Ids, d \in DeletedParams, pl \in Payloads :
          BeginUpdate(w, c, id, d, pl)
    \/ \E w \in Workers, id \in Ids : BeginArchive(w, 1, id)
    \/ \E w \in Workers : FinishSave(w)
    \/ \E id \in Ids : BulkAction("soft_delete_news", 1, {id})
    \/ \E id \in Ids : BulkAction("restore_news", 1, {id})

SpecStale == Init /\ [][NextStale]_vars

----------------------------------------------------------------------------
(* The API's writes to records the admin added *)

NextApi ==
    \/ Tick
    \/ \E u \in Staff, st \in STATUS_CHOICES :
          Len(news) < MaxRows /\ AdminAdd(u, TestNews, st)
    \/ \E u \in Staff, sel \in SUBSET DOMAIN news : archive_news(u, sel)
    \/ \E c \in OneOfEach, st \in STATUS_CHOICES, p \in {NoTime, MaxTime + 1} :
          Len(news) < MaxRows /\ ApiCreate(c, TestNews, st, p)
    \/ \E c \in OneOfEach, id \in DOMAIN news, d \in DeletedParams, p \in Payloads :
          ApiUpdate(c, id, d, p)
    \/ \E c \in Callers, id \in DOMAIN news, d \in DeletedParams : ApiPublish(c, id, d)

SpecApi == Init /\ [][NextApi]_vars


----------------------------------------------------------------------------
(* The claims *)

TestNewsSlug == <<"t", "e", "s", "t", "-", "n", "e", "w", "s">>

\* C1: after any sequence of News operations handled one after the other, no
\* two stored records, soft-deleted ones included, have the same slug.
C1_UniqueSlugs ==
    \A i, j \in DOMAIN news : i # j => news[i].slug # news[j].slug

\* two records of one title, the older one soft-deleted and still holding its slug
C1_Witness ==
    \E i, j \in DOMAIN news :
        /\ i < j
        /\ news[i].title = news[j].title
        /\ news[i].deleted_at # NoTime
        /\ news[j].deleted_at = NoTime
        /\ news[i].slug # <<>>

\* C2: creating a News record with an empty slug always yields a non-empty
\* slug, for every title.
C2_NonEmptySlug ==
    \A i \in DOMAIN news : news[i].slug # <<>>

Held(slug, rows) == \E i \in DOMAIN rows : rows[i].slug = slug

Suffixed(base, k) == base \o <<"-">> \o Str(k)

\* the base slug if no row holds it, otherwise base-k for the smallest free k
ExpectedSlug(title, rows) ==
    LET base == slugify(title)
    IN  IF ~Held(base, rows) THEN base
        ELSE Suffixed(base,
                 CHOOSE k \in 1..(Len(rows) + 1) :
                     /\ ~Held(Suffixed(base, k), rows)
                     /\ \A j \in 1..(k - 1) : Held(Suffixed(base, j), rows))

\* C3: a record first saved without a slug gets the base slug of its title if
\* no stored record (soft-deleted ones included) holds it, otherwise base-k for
\* the smallest k >= 1 that no stored record holds: the first 'Test News' gets
\* 'test-news', the second 'test-news-1', and a slug held by a soft-deleted
\* record is not handed out.
C3_FirstSaveSlug ==
    [][Len(news') = Len(news) + 1 =>
         LET new == news'[Len(news')]
         IN  /\ new.slug = ExpectedSlug(new.title, news)
             /\ ~Held(new.slug, news)
             /\ (new.title = TestNews /\ ~Held(TestNewsSlug, news))
                    => new.slug = TestNewsSlug
             /\ (/\ new.title = TestNews
                 /\ Held(TestNewsSlug, news)
                 /\ ~Held(TestNewsSlug \o <<"-", "1">>, news))
                    => new.slug = TestNewsSlug \o <<"-", "1">>]_vars

\* 'test-news' held by a soft-deleted record, and a later record given
\* 'test-news-2' because 'test-news-1' was held as well
C3_Witness ==
    \E i, j, k \in DOMAIN news :
        /\ news[i].slug = TestNewsSlug
        /\ news[i].deleted_at # NoTime
        /\ news[j].slug = TestNewsSlug \o <<"-", "1">>
        /\ news[k].slug = TestNewsSlug \o <<"-", "2">>
        /\ news[k].title = TestNews

\* C4: the slug check of save() reads the stored rows only, so two concurrent
\* creations of one title that are both between their check and their write
\* hold the same candidate slug, unless a row written in between holds one of
\* the two.
C4_CheckThenWriteRace ==
    \A w1, w2 \in Adding :
        (w1 # w2 /\ inflight[w1].inst.title = inflight[w2].inst.title) =>
            \/ inflight[w1].inst.slug = inflight[w2].inst.slug
            \/ SlugExists(inflight[w1].inst.slug, news)
            \/ SlugExists(inflight[w2].inst.slug, news)

\* both writers past the check with the same slug, which no stored row holds
C4_Witness ==
    \E w1, w2 \in Adding :
        /\ w1 # w2
        /\ inflight[w1].inst.title = inflight[w2].inst.title
        /\ inflight[w1].inst.slug = inflight[w2].inst.slug
        /\ ~SlugExists(inflight[w1].inst.slug, news)

\* C5: published_by is set at most once: once it is not null, no operation
\* changes it.
C5_PublishedByOnce ==
    [][\A i \in DOMAIN news :
          news[i].published_by # Null => news'[i].published_by = news[i].published_by]_vars

\* a record published by user 1, last saved later by user 2 and published now
C5_Witness ==
    \E i \in DOMAIN news :
        /\ news[i].published_by = 1
        /\ news[i].updated_by = 2
        /\ news[i].status = "published"
        /\ news[i].published_at < news[i].updated_at

\* C6: DELETE /news/{id}/ by a staff caller on a non-deleted record succeeds,
\* keeps the record stored, sets deleted_at and sets updated_by to the caller.
C6_DeleteSoftDeletes ==
    [][response'.request = "destroy" =>
         \A c \in Staff, id \in DOMAIN news :
             (news[id].deleted_at = NoTime /\ ApiDestroy(c, id, "none")) =>
                 /\ response'.code = 204
                 /\ Len(news') = Len(news)
                 /\ news'[id].deleted_at # NoTime
                 /\ news'[id].updated_by = c]_vars

\* C7: POST /news/{id}/restore/ by a staff caller on a soft-deleted record
\* finds the record, answers with success and leaves deleted_at null.
C7_RestoreFindsDeleted ==
    [][response'.request = "restore" =>
         \A c \in Staff, id \in DOMAIN news :
             (news[id].deleted_at # NoTime /\ ApiRestore(c, id, "none")) =>
                 /\ response'.code = 200
                 /\ news'[id].deleted_at = NoTime]_vars

\* C8: a request of a non-staff caller to the /news/ list or detail endpoint,
\* whatever its query parameters, returns no record with deleted_at set.
C8_DeletedOnlyForStaff ==
    [][response'.request \in {"list", "retrieve"} =>
         \A c \in Callers \ Staff, d \in DeletedParams :
             (ApiList(c, d) \/ \E id \in Ids : ApiRetrieve(c, id, d)) =>
                 \A i \in response'.ids : news[i].deleted_at = NoTime]_vars

\* C9: when the view-count requests on a record have all been answered, its
\* view_count is higher than at the start (0) by the number answered with
\* success, however the requests interleaved.
C9_NoLostViews ==
    \A i \in DOMAIN news :
        Viewing(i) = {} => news[i].view_count = acked[i]

\* publicly visible: published, published_at reached, not soft-deleted
Visible(row, t) ==
    /\ row.status = "published"
    /\ row.published_at # NoTime
    /\ row.published_at <= t
    /\ row.deleted_at = NoTime

\* what C10 says of a view-count request on record id
ViewCounted(id) ==
    IF Visible(news[id], now)
    THEN /\ news'[id].view_count = news[id].view_count + 1
         /\ response'.code = 200
    ELSE /\ response'.code = 404
         /\ news' = news

C11_PublicOnlyVisible ==
    [][response'.request \in {"public", "public.list", "public.retrieve"} =>
         /\ \A i \in response'.ids : i \in DOMAIN news /\ Visible(news[i], now)
         /\ (ApiPublic(FALSE) \/ PublicList(FALSE)) =>
                response'.ids = {i \in DOMAIN news : Visible(news[i], now)}]_vars

\* a public listing answered with a record, after a tick of the clock
C11_Witness ==
    /\ response.request \in {"public", "public.list"}
    /\ response.ids # {}
    /\ now > 0
    /\ \A i \in response.ids : Visible(news[i], now) /\ news[i].published_at = now

\* C12: publish on a soft-deleted record fails, whoever asks and whatever the
\* deleted parameter, and leaves every field of every stored record unchanged.
C12_PublishDeletedFails ==
    [][response'.request = "publish" =>
         \A c \in Callers, id \in DOMAIN news, d \in DeletedParams :
             (news[id].deleted_at # NoTime /\ ApiPublish(c, id, d)) =>
                 /\ response'.code \in {400, 401, 403, 404}
                 /\ news' = news]_vars

\* publish refused by the handler's own test: the record was found (through
\* deleted=true) and is soft-deleted, once published by user 1 and archived since
C12_Witness ==
    /\ response.request = "publish"
    /\ response.code = 400
    /\ \E i \in DOMAIN news :
          /\ news[i].deleted_at # NoTime
          /\ news[i].status = "archived"
          /\ news[i].published_by = 1

\* what C13 says of a publish request on record id: success, and
\* published_at, published_by and status as they were
Republished(id) ==
    /\ response'.code = 200
    /\ news'[id].status = news[id].status
    /\ news'[id].published_at = news[id].published_at
    /\ news'[id].published_by = news[id].published_by

C14_PublishPublishes ==
    [][response'.request = "publish" =>
         \A c \in Staff, id \in DOMAIN news :
             (/\ news[id].deleted_at = NoTime
              /\ news[id].status \in {"draft", "archived"}
              /\ ApiPublish(c, id, "none")) =>
                 /\ response'.code = 200
                 /\ news'[id].status = "published"
                 /\ news'[id].published_at =
                       IF news[id].published_at = NoTime THEN now ELSE news[id].published_at
                 /\ news'[id].published_by =
                       IF news[id].published_by = Null THEN c ELSE news[id].published_by]_vars

\* C15: soft_delete followed by restore takes a stored, non-deleted record out
\* of the default query set and back into it, with deleted_at null and slug,
\* status, published_at, published_by and view_count as before the soft_delete.
C15_DeleteRestoreRoundTrip ==
    \A i \in DOMAIN news, user_id \in {Null} \cup Staff :
        news[i].deleted_at = NoTime =>
            LET deleted == soft_delete(news[i], user_id, news, now)
                rows1 == [news EXCEPT ![i] = deleted]
                restored == restore(deleted, rows1, now)
                rows2 == [rows1 EXCEPT ![i] = restored]
            IN  /\ i \notin Objects(rows1)
                /\ i \in Objects(rows2)
                /\ restored.deleted_at = NoTime
                /\ restored.slug = news[i].slug
                /\ restored.status = news[i].status
                /\ restored.published_at = news[i].published_at
                /\ restored.published_by = news[i].published_by
                /\ restored.view_count = news[i].view_count

\* C16: the default query set is exactly the stored records with deleted_at
\* null and the all-records query set is every stored record, so a soft-deleted
\* record is absent from the former and present in the latter.
C16_DefaultExcludesDeleted ==
    /\ Objects(news) = {i \in DOMAIN news : news[i].deleted_at = NoTime}
    /\ AllObjects(news) = DOMAIN news
    /\ \A i \in DOMAIN news :
          news[i].deleted_at # NoTime => (i \notin Objects(news) /\ i \in AllObjects(news))

\* a soft-deleted record and a live one stored side by side
C16_Witness ==
    /\ Objects(news) # {}
    /\ AllObjects(news) \ Objects(news) # {}
    /\ response.request = "soft_delete_news"

\* C17: no operation of the API viewsets or of the admin actions removes a
\* stored record: every stored record stays stored.
C17_NoHardDelete ==
    [][Len(news') >= Len(news)]_vars

C19_ViewsOnlyCounter ==
    [][response'.request \in {"increment_views", "view"} =>
         /\ Len(news') = Len(news)
         /\ \A i \in DOMAIN news :
               [news'[i] EXCEPT !.view_count = news[i].view_count] = news[i]]_vars

\* a second view counted some time after the record was last saved
C19_Witness ==
    /\ response.request \in {"increment_views", "view"}
    /\ response.code = 200
    /\ \E i \in DOMAIN news :
          /\ news[i].view_count = 2
          /\ news[i].updated_at < now

\* C20: an API create, update or publish that writes an audit field has its
\* write accepted, and created_by, updated_by and published_by of every stored
\* record hold null or a user identifier, never a user object.
C20_AuditWritesAccepted ==
    [][response'.request \in {"create", "update", "publish"} =>
         /\ response'.code # 500
         /\ \A i \in DOMAIN news' :
               /\ ~IsUserObject(news'[i].created_by)
               /\ ~IsUserObject(news'[i].updated_by)
               /\ ~IsUserObject(news'[i].published_by)]_vars

Refused(c) ==
    /\ news' = news
    /\ c = NormalUser => response'.code = 403

\* C22: a create, update or delete request on /news/ by an authenticated
\* caller who is not staff is answered 403 and changes no stored record; no
\* caller who is not staff changes a stored record through these requests.
C22_WritesStaffOnly ==
    [][response'.request \in {"create", "update", "destroy"} =>
         \/ news' = news /\ response'.code = 403
         \/ \A c \in Callers \ Staff :
            /\ response'.request = "create" =>
                  \A st \in STATUS_CHOICES, p \in {NoTime, MaxTime + 1} :
                      ApiCreate(c, TestNews, st, p) => Refused(c)
            /\ response'.request = "update" =>
                  \A id \in DOMAIN news, d \in DeletedParams, pl \in Payloads :
                      ApiUpdate(c, id, d, pl) => Refused(c)
            /\ response'.request = "destroy" =>
                  \A id \in DOMAIN news, d \in DeletedParams :
                      ApiDestroy(c, id, d) => Refused(c)]_vars

\* a write refused as forbidden while a record is stored
C22_Witness ==
    /\ response.request \in {"create", "update", "destroy"}
    /\ response.code = 403
    /\ news # <<>>

SaludSlug == <<"s", "a", "l", "u", "d">>

\* C23: a category created without a slug is stored with a non-empty slug
\* derived from its name ('Salud' gives 'salud'), and, when is_active is not
\* given either, with is_active true.
C23_CategorySlugFromName ==
    [][Len(categories') = Len(categories) + 1 =>
         LET new == categories'[Len(categories')]
         IN  /\ new.slug # <<>>
             /\ new.name = Salud => new.slug = SaludSlug
             /\ response'.request = "category.objects.create" => new.is_active]_vars

\* C24: once a soft-delete of a record has been written, no step other than
\* a restore makes its deleted_at null again, whatever publish, update or
\* archive request loaded the record before the soft-delete and saves it after.
C24_OnlyRestoreUndeletes ==
    [][\A id \in DOMAIN news :
          (news[id].deleted_at # NoTime /\ news'[id].deleted_at = NoTime) =>
              response'.request \in {"restore", "restore_news"}]_vars

\* C25: whatever create, update and publish requests the API has handled,
\* every stored record with status published has a published_at, also after
\* an update whose payload carries published_at = null.
C25_PublishedHasDate ==
    \A i \in DOMAIN news :
        news[i].status = "published" => news[i].published_at # NoTime

\* an update of a published record has been answered, and the record is
\* still published with its date
C25_Witness ==
    /\ response.request = "update"
    /\ response.code = 500
    /\ \E i \in DOMAIN news :
          /\ news[i].status = "published"
          /\ news[i].published_at # NoTime
          /\ news[i].published_at < now

====
